---- MODULE Spec2Model ----
(***************************************************************************)
(* Model of the volkslauf registration and results engine (src/main.py):   *)
(* the duration codec of DurationProperty, the age classification of       *)
(* Runner, and the request handlers that write events and runners to the   *)
(* datastore, with their transactions.                                     *)
(***************************************************************************)
EXTENDS Integers, Sequences, FiniteSets, TLC

\* Python's None, for a value that is otherwise a string, a text (a sequence
\* of characters), an integer or a key
None == "None"
NoneText == <<"None">>
NoneInt == -1
NoKey == 0

(***************************************************************************)
(* Text.  A Python string is modelled as the sequence of its characters,   *)
(* so that formatting and parsing are computed as the code computes them.  *)
(***************************************************************************)
Digits == <<"0", "1", "2", "3", "4", "5", "6", "7", "8", "9">>

IsDigit(c) == \E i \in 1..10 : Digits[i] = c

DigitValue(c) == (CHOOSE i \in 1..10 : Digits[i] = c) - 1

\* str(n) for n >= 0
RECURSIVE DecStr(_)
DecStr(n) == IF n < 10 THEN <<Digits[n + 1]>>
             ELSE DecStr(n \div 10) \o <<Digits[(n % 10) + 1]>>

\* '{:02}'.format(n) for n >= 0
Pad2(n) == IF n < 10 THEN <<"0">> \o DecStr(n) ELSE DecStr(n)

\* int(chars) of a non-empty sequence of digits
RECURSIVE IntOf(_)
IntOf(chars) == IF Len(chars) = 0 THEN 0
                ELSE 10 * IntOf(SubSeq(chars, 1, Len(chars) - 1))
                     + DigitValue(chars[Len(chars)])

IsNumber(chars) == Len(chars) > 0 /\ \A i \in 1..Len(chars) : IsDigit(chars[i])

\* chars.split(':', maxsplit)
RECURSIVE Split(_, _)
Split(chars, maxsplit) ==
    LET colons == {i \in 1..Len(chars) : chars[i] = ":"}
    IN  IF maxsplit = 0 \/ colons = {} THEN <<chars>>
        ELSE LET i == CHOOSE j \in colons : \A k \in colons : j <= k
             IN  <<SubSeq(chars, 1, i - 1)>>
                 \o Split(SubSeq(chars, i + 1, Len(chars)), maxsplit - 1)

(***************************************************************************)
(* DurationProperty                                                        *)
(***************************************************************************)
\* DurationProperty._display_seconds with the hours it writes
DisplaySecondsFrom(seconds) ==
    LET secs  == seconds % 60
        mins  == (seconds \div 60) % 60
        hours == (seconds \div 60) \div 60
    IN  IF hours # 0
        THEN Pad2(hours) \o <<":">> \o Pad2(mins) \o <<":">> \o Pad2(secs)
        ELSE <<"0", "0", ":">> \o Pad2(mins) \o <<":">> \o Pad2(secs)

_display_seconds(seconds) ==
    IF seconds = NoneInt THEN NoneText ELSE DisplaySecondsFrom(seconds)

\* The arithmetic of DurationProperty._get_seconds_from_time on the split parts
SecondsOfParts(arr) ==
    IF Len(arr) = 3 THEN arr[1] * 60 * 60 + arr[2] * 60 + arr[1]
    ELSE IF Len(arr) = 2 THEN arr[1] * 60 + arr[2]
    ELSE arr[1]

_get_seconds_from_time(time_str) ==
    IF time_str = NoneText \/ time_str = <<>> THEN NoneInt
    ELSE LET parts == Split(time_str, 3)
         IN  SecondsOfParts([i \in 1..Len(parts) |-> IntOf(parts[i])])

\* REGEX_TIME = ^(\d+:)?\d+:\d+ as re.match / re.search apply it: a prefix of
\* the text is digits, a colon and a digit (nothing anchors the end)
RegexTimeMatches(chars) ==
    \E i \in 2..Len(chars) :
        /\ chars[i] = ":"
        /\ IsNumber(SubSeq(chars, 1, i - 1))
        /\ i < Len(chars)
        /\ IsDigit(chars[i + 1])

(***************************************************************************)
(* Runner._compute_age_class                                               *)
(***************************************************************************)
\* AgeClassOfAge with the bands closed one year early (< for <=)
AgeClassOfAgeEarly(gender, age) ==
    LET g == IF gender = "male" THEN "M" ELSE "W"
    IN  IF age < 16
        THEN (g \o "S ") \o (IF age < 9 THEN "D"
                             ELSE IF age < 11 THEN "C"
                             ELSE IF age < 13 THEN "B"
                             ELSE IF age < 15 THEN "A" ELSE "")
        ELSE IF age < 20
        THEN (g \o "JG ") \o (IF age < 17 THEN "B"
                              ELSE IF age < 19 THEN "A" ELSE "")
        ELSE ("L" \o g) \o (IF age < 29 THEN "20"
                            ELSE IF age < 34 THEN "30"
                            ELSE IF age < 39 THEN "35"
                            ELSE IF age < 44 THEN "40"
                            ELSE IF age < 49 THEN "45"
                            ELSE IF age < 54 THEN "50"
                            ELSE IF age < 59 THEN "55"
                            ELSE IF age < 64 THEN "60"
                            ELSE IF age < 69 THEN "65"
                            ELSE "70")

AgeClassOfAge(gender, age) ==
    LET g == IF gender = "male" THEN "M" ELSE "W"
    IN  IF age < 16
        THEN (g \o "S ") \o (IF age <= 9 THEN "D"
                             ELSE IF age <= 11 THEN "C"
                             ELSE IF age <= 13 THEN "B"
                             ELSE IF age <= 15 THEN "A" ELSE "")
        ELSE IF age < 20
        THEN (g \o "JG ") \o (IF age <= 17 THEN "B"
                              ELSE IF age <= 19 THEN "A" ELSE "")
        ELSE ("L" \o g) \o (IF age <= 29 THEN "20"
                            ELSE IF age <= 34 THEN "30"
                            ELSE IF age <= 39 THEN "35"
                            ELSE IF age <= 44 THEN "40"
                            ELSE IF age <= 49 THEN "45"
                            ELSE IF age <= 54 THEN "50"
                            ELSE IF age <= 59 THEN "55"
                            ELSE IF age <= 64 THEN "60"
                            ELSE IF age <= 69 THEN "65"
                            ELSE "70")

_compute_age_class(gender, birth_year, event_year) ==
    IF birth_year = NoneInt \/ birth_year = 0 \/ gender \notin {"male", "female"}
    THEN None
    ELSE AgeClassOfAge(gender, event_year - birth_year)

(***************************************************************************)
(* Bounds and inputs                                                       *)
(***************************************************************************)
\* Number of requests handled at the same time
NumProcs == 2
\* Keys the datastore can allocate for events and for runners
MaxEvents == 1
MaxRunners == 2
\* Largest start number a form carries
MaxStartNo == 2
\* Attempts after the first that ndb.transactional makes when a commit conflicts
Retries == 3

Procs == 1..NumProcs

\* EventForm: what the event forms post, valid and invalid
EventForms ==
    [title : {"Lauf"}, year : {2016, 2020}, next_start_no : 1..MaxStartNo]
    \cup {[title |-> "", year |-> 2016, next_start_no |-> 1],
          [title |-> "Lauf", year |-> 1989, next_start_no |-> 1],
          [title |-> "Lauf", year |-> 2016, next_start_no |-> 0]}

\* RunnerForm: what the runner forms post, valid and invalid
Persons ==
    {[name |-> "Anna", team |-> "", gender |-> "female", birth_year |-> 2004,
      race |-> "6km"]}

WithStartNo(person, n) ==
    [start_no |-> n, name |-> person.name, team |-> person.team,
     gender |-> person.gender, birth_year |-> person.birth_year,
     race |-> person.race]

RunnerForms ==
    {WithStartNo(q, n) : q \in Persons, n \in 1..MaxStartNo}
    \cup {[start_no |-> 0, name |-> "Anna", team |-> "", gender |-> "female",
           birth_year |-> 2004, race |-> "6km"],
          [start_no |-> 1, name |-> "", team |-> "", gender |-> "female",
           birth_year |-> 2004, race |-> "6km"],
          [start_no |-> 1, name |-> "Anna", team |-> "", gender |-> "other",
           birth_year |-> 2004, race |-> "6km"],
          [start_no |-> 1, name |-> "Anna", team |-> "", gender |-> "female",
           birth_year |-> 1899, race |-> "6km"],
          [start_no |-> 1, name |-> "Anna", team |-> "", gender |-> "female",
           birth_year |-> 2004, race |-> "5km"]}

\* The time texts the finish form posts: absent, empty, mm:ss, no colon
TimeTexts ==
    {NoneText,
     <<>>,
     <<"2", "5", ":", "0", "7">>,
     <<"7">>}

(***************************************************************************)
(* State                                                                   *)
(***************************************************************************)
VARIABLES
    events,        \* the stored Event entities, by key
    runners,       \* the stored Runner entities, by key
    nextEventId,   \* the next Event key the datastore allocates
    nextRunnerId,  \* the next Runner key the datastore allocates
    procs,         \* each request: its handler, position and local variables
    dirty,         \* requests whose open transaction lost its snapshot
    last,          \* how the request that ended last ended
    calc           \* the argument and result of a function applied on its own

vars == <<events, runners, nextEventId, nextRunnerId, procs, dirty, last, calc>>

store == <<events, runners, nextEventId, nextRunnerId>>

NoForm == [start_no |-> 0]
NoEntity == [key |-> NoKey]

\* A request slot that handles nothing
Idle ==
    [pc |-> "idle", op |-> "none", ev |-> NoKey, rid |-> NoKey,
     form |-> NoForm, ent |-> NoEntity, keys |-> {}, stEvent |-> FALSE,
     retries |-> 0]

Running(pc, op, ev, rid, form) ==
    [Idle EXCEPT !.pc = pc, !.op = op, !.ev = ev, !.rid = rid, !.form = form]

\* The request p ends
Done(p) == [procs EXCEPT ![p] = Idle]

\* What a handler that ended was and how it ended: "ok", or "invalid" for
\* formencode.Invalid, "notime" and "notfound" for the refusals of the finish
\* handler, "txfail" for a transaction out of retries, "crash" for a request
\* that died, "error" for any other exception
Ended(op, outcome) == [op |-> op, outcome |-> outcome]

\* Remove the keys ks from the stored entities f
Without(f, ks) == [k \in DOMAIN f \ ks |-> f[k]]

\* Event keys and Runner keys a request can name: those allocated so far
EventKeys == 1..(nextEventId - 1)
RunnerKeys == 1..(nextRunnerId - 1)

\* Runner.query(ancestor=event_key): keys in key order
RunnersOf(rs, e) == {r \in DOMAIN rs : rs[r].event = e}

\* Runner.query(Runner.start_no == value, ancestor=event_key).get()
RunnerByStartNo(rs, e, value) ==
    LET found == {r \in RunnersOf(rs, e) : rs[r].start_no = value}
    IN  IF found = {} THEN NoKey
        ELSE CHOOSE r \in found : \A q \in found : r <= q

\* The open transactions of the entity group: every Event has the
\* organization key as parent and every Runner its Event, so all entities
\* are in one group
InTxn(p) == procs[p].pc \in {"c_event", "c_runner", "de_commit"}

\* Touched without the conflict: a commit that no write of another request
\* can make fail, as if _create_runner were not transactional
TouchedNone(p) == dirty

\* A write by p reached the datastore: every other open transaction of the
\* group will fail to commit
Touched(p) == dirty \cup {q \in Procs \ {p} : InTxn(q)}

(***************************************************************************)
(* Validation                                                              *)
(***************************************************************************)
\* EventForm.to_python passes
EventFormValid(form) ==
    /\ form.title # ""
    /\ form.year >= 1990 /\ form.year <= 2500
    /\ form.next_start_no >= 1

\* UniqueStartNoValidator that never raises, as if the validator were left
\* out of the form
UniqueStartNoValidatorOff(rs, value, event_key, runner_key) == FALSE

\* UniqueStartNoValidator.validate_python raises Invalid
UniqueStartNoValidator(rs, value, event_key, runner_key) ==
    LET runner == RunnerByStartNo(rs, event_key, value)
    IN  runner # NoKey /\ runner # runner_key

\* RunnerForm.to_python passes for the fields other than the uniqueness
RunnerFieldsValid(form) ==
    /\ form.start_no >= 1
    /\ form.name # ""
    /\ form.gender \in {"male", "female"}
    /\ form.birth_year >= 1900
    /\ form.race \in {"6km", "12km"}

\* RunnerForm.to_python raises Invalid
RunnerFormInvalid(rs, form, event_key, runner_key) ==
    \/ ~RunnerFieldsValid(form)
    \/ UniqueStartNoValidator(rs, form.start_no, event_key, runner_key)

(***************************************************************************)
(* Runner                                                                  *)
(***************************************************************************)
\* Runner._pre_put_hook, with the year of the runner's event
_pre_put_hook(runner, event_year) ==
    LET age_class ==
            _compute_age_class(runner.gender, runner.birth_year, event_year)
    IN  IF age_class # None THEN [runner EXCEPT !.age_class = age_class]
        ELSE runner

\* Runner(parent=event_key, event=event_key, **form_result)
NewRunner(event_key, form) ==
    [event |-> event_key, start_no |-> form.start_no, name |-> form.name,
     team |-> form.team, gender |-> form.gender,
     birth_year |-> form.birth_year, age_class |-> None, race |-> form.race,
     time |-> NoneText]

(***************************************************************************)
(* EventCreateHandler.post                                                 *)
(***************************************************************************)
CreateEvent(p, form) ==
    /\ procs[p].pc = "idle"
    /\ nextEventId <= MaxEvents
    /\ IF EventFormValid(form)
       THEN /\ events' = (nextEventId :> form) @@ events
            /\ nextEventId' = nextEventId + 1
            /\ dirty' = Touched(p)
            /\ last' = Ended("CreateEvent", "ok")
       ELSE /\ last' = Ended("CreateEvent", "invalid")
            /\ UNCHANGED <<events, nextEventId, dirty>>
    /\ UNCHANGED <<runners, nextRunnerId, procs, calc>>

(***************************************************************************)
(* EventUpdateHandler.post                                                 *)
(***************************************************************************)
\* event = event_key.get(), and None has no populate; form.to_python,
\* which reads only the request, may raise Invalid
UpdateEventGet(p, e, form) ==
    /\ procs[p].pc = "idle"
    /\ e \in EventKeys
    /\ IF e \notin DOMAIN events
       THEN /\ last' = Ended("UpdateEvent", "error")
            /\ UNCHANGED procs
       ELSE IF ~EventFormValid(form)
       THEN /\ last' = Ended("UpdateEvent", "invalid")
            /\ UNCHANGED procs
       ELSE /\ procs' = [procs EXCEPT ![p] =
                 Running("ue_put", "UpdateEvent", e, NoKey, form)]
            /\ UNCHANGED last
    /\ UNCHANGED <<store, dirty, calc>>

\* The event as event.populate(**form_result) leaves it: every property of
\* the event that is modelled is set from the form
PopulatedEvent(form) ==
    [title |-> form.title, year |-> form.year,
     next_start_no |-> form.next_start_no]

\* event.populate(...); event.put(): the whole event is written
UpdateEventPut(p) ==
    LET l == procs[p]
    IN  /\ l.pc = "ue_put"
        /\ events' = (l.ev :> PopulatedEvent(l.form)) @@ events
        /\ dirty' = Touched(p)
        /\ last' = Ended("UpdateEvent", "ok")
        /\ procs' = Done(p)
        /\ UNCHANGED <<runners, nextEventId, nextRunnerId, calc>>

(***************************************************************************)
(* EventDeleteHandler.post and Event._pre_delete_hook                      *)
(***************************************************************************)
\* event = event_key.get(); event.title
DeleteEventGet(p, e) ==
    /\ procs[p].pc = "idle"
    /\ e \in EventKeys
    /\ IF e \in DOMAIN events
       THEN /\ procs' = [procs EXCEPT ![p] =
                 [Running("de_hook", "DeleteEvent", e, NoKey, NoForm)
                    EXCEPT !.retries = Retries]]
            /\ UNCHANGED last
       ELSE /\ last' = Ended("DeleteEvent", "error")
            /\ UNCHANGED procs
    /\ UNCHANGED <<store, dirty, calc>>

\* event_key.delete() calls the hook: its transaction starts and
\* Runner.query(ancestor=key).fetch(keys_only=True) reads the keys
DeleteEventHookBegin(p) ==
    LET l == procs[p]
    IN  /\ l.pc = "de_hook"
        /\ procs' = [procs EXCEPT ![p].pc = "de_commit",
                                  ![p].keys = RunnersOf(runners, l.ev)]
        /\ dirty' = dirty \ {p}
        /\ UNCHANGED <<store, last, calc>>

\* ndb.delete_multi(keys) and the commit of the hook's transaction; a
\* conflicting commit runs the hook again, until the retries are used up
DeleteEventHookCommit(p) ==
    LET l == procs[p]
    IN  /\ l.pc = "de_commit"
        /\ IF p \notin dirty
           THEN /\ runners' = Without(runners, l.keys)
                /\ dirty' = Touched(p)
                /\ procs' = [procs EXCEPT ![p].pc = "de_delete",
                                          ![p].keys = {}, ![p].retries = 0]
                /\ UNCHANGED last
           ELSE /\ IF l.retries > 0
                   THEN /\ procs' = [procs EXCEPT ![p].pc = "de_hook",
                                                  ![p].keys = {},
                                                  ![p].retries = @ - 1]
                        /\ UNCHANGED last
                   ELSE /\ procs' = Done(p)
                        /\ last' = Ended("DeleteEvent", "txfail")
                /\ dirty' = dirty \ {p}
                /\ UNCHANGED runners
        /\ UNCHANGED <<events, nextEventId, nextRunnerId, calc>>

\* After the hook, the delete of the event itself
DeleteEventDelete(p) ==
    LET l == procs[p]
    IN  /\ l.pc = "de_delete"
        /\ events' = Without(events, {l.ev})
        /\ dirty' = Touched(p)
        /\ procs' = Done(p)
        /\ last' = Ended("DeleteEvent", "ok")
        /\ UNCHANGED <<runners, nextEventId, nextRunnerId, calc>>

(***************************************************************************)
(* RunnerCreateHandler.post and _create_runner                             *)
(***************************************************************************)
\* What the transaction of _create_runner reads when it begins:
\* form.to_python validates the fields and queries the runners of the event,
\* event_key.get() reads the event.  All reads of a transaction see the
\* entity group as it was when the transaction began.  Invalid leaves the
\* transaction, which is rolled back.
Begun(l) ==
    [l EXCEPT !.pc = "c_event",
              !.ent = IF l.ev \in DOMAIN events THEN events[l.ev]
                      ELSE NoEntity]

\* The request arrives and the transaction begins
CreateStart(p, e, form) ==
    /\ procs[p].pc = "idle"
    /\ e \in EventKeys
    /\ nextRunnerId + Cardinality({q \in Procs : procs[q].op = "Create"})
       <= MaxRunners
    /\ IF RunnerFormInvalid(runners, form, e, NoKey)
       THEN /\ last' = Ended("Create", "invalid")
            /\ UNCHANGED procs
       ELSE /\ procs' = [procs EXCEPT ![p] =
                 Begun([Running("c_begin", "Create", e, NoKey, form)
                          EXCEPT !.retries = Retries])]
            /\ UNCHANGED last
    /\ UNCHANGED <<store, dirty, calc>>

\* The transaction begins again after a commit that conflicted
CreateBegin(p) ==
    LET l == procs[p]
    IN  /\ l.pc = "c_begin"
        /\ IF RunnerFormInvalid(runners, l.form, l.ev, NoKey)
           THEN /\ procs' = Done(p)
                /\ last' = Ended("Create", "invalid")
           ELSE /\ procs' = [procs EXCEPT ![p] = Begun(l)]
                /\ UNCHANGED last
        /\ dirty' = dirty \ {p}
        /\ UNCHANGED <<store, calc>>

\* if event.next_start_no == form_result['start_no']: += 1; event.put()
\* None, for an event that is gone, has no next_start_no
CreateEventPut(p) ==
    LET l == procs[p]
    IN  /\ l.pc = "c_event"
        /\ IF l.ent = NoEntity
           THEN /\ procs' = Done(p)
                /\ last' = Ended("Create", "error")
                /\ dirty' = dirty \ {p}
           ELSE /\ procs' = [procs EXCEPT
                     ![p].pc = "c_runner",
                     ![p].stEvent = (l.ent.next_start_no = l.form.start_no)]
                /\ UNCHANGED <<last, dirty>>
        /\ UNCHANGED <<store, calc>>

\* StagedEvent with the counter stepped the wrong way
StagedEventLowered(l) == [l.ent EXCEPT !.next_start_no = @ - 1]

\* The event a transaction of _create_runner has put
StagedEvent(l) == [l.ent EXCEPT !.next_start_no = @ + 1]

\* The runner a transaction of _create_runner has put
StagedRunner(l) == _pre_put_hook(NewRunner(l.ev, l.form), l.ent.year)

\* CommittedEvents with the event put whether or not the start number is
\* the event's next_start_no
CommittedEventsAlways(evs, l) == (l.ev :> StagedEvent(l)) @@ evs

\* The events and runners after the transaction of l committed
CommittedEvents(evs, l) ==
    IF l.stEvent THEN (l.ev :> StagedEvent(l)) @@ evs ELSE evs

CommittedRunners(rs, l, key) == (key :> StagedRunner(l)) @@ rs

\* RolledBackEvents with event.put() written through at once, as if
\* _create_runner were not transactional
RolledBackEventsLeaky(evs, l) ==
    IF l.stEvent /\ l.ev \in DOMAIN evs
    THEN (l.ev :> StagedEvent(l)) @@ evs
    ELSE evs

\* The events and runners after the transaction of l was rolled back
RolledBackEvents(evs, l) == evs

RolledBackRunners(rs, l, key) == rs

\* runner = Runner(...); runner.put(), and the commit of the transaction; a
\* conflicting commit runs _create_runner again, until the retries are used
\* up
CreateRunnerPut(p) ==
    LET l == procs[p]
    IN  /\ l.pc = "c_runner"
        /\ IF p \notin dirty
           THEN /\ events' = CommittedEvents(events, l)
                /\ runners' = CommittedRunners(runners, l, nextRunnerId)
                /\ nextRunnerId' = nextRunnerId + 1
                /\ dirty' = Touched(p)
                /\ procs' = Done(p)
                /\ last' = Ended("Create", "ok")
           ELSE /\ events' = RolledBackEvents(events, l)
                /\ runners' = RolledBackRunners(runners, l, nextRunnerId)
                /\ IF l.retries > 0
                   THEN /\ procs' = [procs EXCEPT ![p] =
                             [Running("c_begin", "Create", l.ev, NoKey, l.form)
                                EXCEPT !.retries = l.retries - 1]]
                        /\ UNCHANGED last
                   ELSE /\ procs' = Done(p)
                        /\ last' = Ended("Create", "txfail")
                /\ dirty' = dirty \ {p}
                /\ UNCHANGED nextRunnerId
        /\ UNCHANGED <<nextEventId, calc>>

\* The request dies inside the transaction (a deadline, a lost instance):
\* nothing it has put is committed
CreateCrash(p) ==
    LET l == procs[p]
    IN  /\ l.pc \in {"c_event", "c_runner"}
        /\ events' = RolledBackEvents(events, l)
        /\ runners' = RolledBackRunners(runners, l, nextRunnerId)
        /\ procs' = Done(p)
        /\ last' = Ended("Create", "crash")
        /\ dirty' = dirty \ {p}
        /\ UNCHANGED <<nextEventId, nextRunnerId, calc>>

(***************************************************************************)
(* RunnerUpdateHandler.post and _update_runner                             *)
(***************************************************************************)
\* What the update form posts: a runner as registered or with another gender,
\* birth year and race, and a form without a name; RunnerForm filters the
\* time out of what populate gets, and the handler reads it from the
\* request: absent, empty or mm:ss
UpdatePersons ==
    Persons \cup {[name |-> "Bernd", team |-> "", gender |-> "male",
                   birth_year |-> 1980, race |-> "12km"]}

UpdateForms ==
    {WithStartNo(q, n) : q \in UpdatePersons, n \in 1..MaxStartNo}
    \cup {[start_no |-> 1, name |-> "", team |-> "", gender |-> "female",
           birth_year |-> 2004, race |-> "6km"]}

UpdateTimes == TimeTexts \ {<<"7">>}

\* How _update_runner ends.  runner_key.get() gives None for a key that is
\* not stored, and None has no populate; form.to_python may raise Invalid;
\* after populate, self.request.params('time') calls the parameter
\* dictionary, which is not callable: TypeError, whatever the request holds
\* as time.  Every exception leaves the transaction, which is rolled back,
\* before runner.put() is reached.
UpdateOutcome(rs, event_key, runner_key, form, time) ==
    IF runner_key \notin DOMAIN rs THEN "error"
    ELSE IF RunnerFormInvalid(rs, form, event_key, runner_key) THEN "invalid"
    ELSE "error"

\* Update that advances the counter of the event as _create_runner does
UpdateAdvancing(p, e, rid, form, time) ==
    /\ procs[p].pc = "idle"
    /\ e \in EventKeys
    /\ rid \in RunnerKeys
    /\ last' = Ended("Update", UpdateOutcome(runners, e, rid, form, time))
    /\ events' = [k \in DOMAIN events |->
                     IF k = e /\ events[k].next_start_no = form.start_no
                     THEN [events[k] EXCEPT !.next_start_no = @ + 1]
                     ELSE events[k]]
    /\ UNCHANGED <<runners, nextEventId, nextRunnerId, procs, dirty, calc>>

Update(p, e, rid, form, time) ==
    /\ procs[p].pc = "idle"
    /\ e \in EventKeys
    /\ rid \in RunnerKeys
    /\ last' = Ended("Update", UpdateOutcome(runners, e, rid, form, time))
    /\ UNCHANGED <<store, procs, dirty, calc>>

(***************************************************************************)
(* RunnerDeleteHandler.post                                                *)
(***************************************************************************)
DeleteRunner(p, e, rid) ==
    /\ procs[p].pc = "idle"
    /\ e \in EventKeys
    /\ rid \in RunnerKeys
    /\ runners' = Without(runners, {rid})
    /\ dirty' = Touched(p)
    /\ last' = Ended("DeleteRunner", "ok")
    /\ UNCHANGED <<events, nextEventId, nextRunnerId, procs, calc>>

(***************************************************************************)
(* RunnerFinishedHandler.post                                              *)
(***************************************************************************)
FinishForms == [start_no : 0..MaxStartNo, time : TimeTexts]

\* RunnerFinishedForm.to_python passes: the time may be empty, and a form
\* without the field is refused as missing a value
FinishFormValid(form) ==
    /\ form.start_no >= 1
    /\ form.time # NoneText
    /\ (form.time = <<>> \/ RegexTimeMatches(form.time))

\* int() accepts every part of the text
TimeStorable(time_str) ==
    LET parts == Split(time_str, 3)
    IN  \A i \in 1..Len(parts) : IsNumber(parts[i])

\* DurationProperty._to_base_type
_to_base_type(value) == _display_seconds(_get_seconds_from_time(value))

\* FinishOutcome without the check of an empty time, as if the handler went
\* on to look the runner up
FinishOutcomeNoTimeCheck(rs, e, form) ==
    IF ~FinishFormValid(form) THEN "invalid"
    ELSE IF RunnerByStartNo(rs, e, form.start_no) = NoKey THEN "notfound"
    ELSE "running"

\* How the handler ends before it has a runner to write
FinishOutcome(rs, e, form) ==
    IF ~FinishFormValid(form) THEN "invalid"
    ELSE IF form.time = <<>> THEN "notime"
    ELSE IF RunnerByStartNo(rs, e, form.start_no) = NoKey THEN "notfound"
    ELSE "running"

\* form.to_python; the check of the time; runners.get()
RecordFinishQuery(p, e, form) ==
    LET outcome == FinishOutcome(runners, e, form)
        rid == RunnerByStartNo(runners, e, form.start_no)
    IN  /\ procs[p].pc = "idle"
        /\ e \in EventKeys
        /\ IF outcome = "running"
           THEN /\ procs' = [procs EXCEPT ![p] =
                     [Running("rf_put", "RecordFinish", e, rid, form)
                        EXCEPT !.ent = runners[rid]]]
                /\ UNCHANGED last
           ELSE /\ last' = Ended("RecordFinish", outcome)
                /\ UNCHANGED procs
        /\ UNCHANGED <<store, dirty, calc>>

\* The runner that runner.time = ...; runner.put() writes
FinishedRunner(runner, time_str, event_year) ==
    [_pre_put_hook(runner, event_year) EXCEPT !.time = _to_base_type(time_str)]

\* runner.time = self.request.get('time'); runner.put(): the hook reads the
\* event (None when it is gone) and the whole runner is written
RecordFinishPut(p) ==
    LET l == procs[p]
    IN  /\ l.pc = "rf_put"
        /\ IF l.ent.event \in DOMAIN events /\ TimeStorable(l.form.time)
           THEN /\ runners' =
                     (l.rid :> FinishedRunner(l.ent, l.form.time,
                                              events[l.ent.event].year))
                     @@ runners
                /\ dirty' = Touched(p)
                /\ last' = Ended("RecordFinish", "ok")
           ELSE /\ last' = Ended("RecordFinish", "error")
                /\ UNCHANGED <<runners, dirty>>
        /\ procs' = Done(p)
        /\ UNCHANGED <<events, nextEventId, nextRunnerId, calc>>

(***************************************************************************)
(* The datastore and the requests                                          *)
(***************************************************************************)
NoCalc == [kind |-> "none"]

Init ==
    /\ events = <<>>
    /\ runners = <<>>
    /\ nextEventId = 1
    /\ nextRunnerId = 1
    /\ procs = [p \in Procs |-> Idle]
    /\ dirty = {}
    /\ last = Ended("none", "none")
    /\ calc = NoCalc

Next ==
    \E p \in Procs :
        \/ \E form \in EventForms : CreateEvent(p, form)
        \/ \E e \in EventKeys, form \in EventForms : UpdateEventGet(p, e, form)
        \/ UpdateEventPut(p)
        \/ \E e \in EventKeys : DeleteEventGet(p, e)
        \/ DeleteEventHookBegin(p)
        \/ DeleteEventHookCommit(p)
        \/ DeleteEventDelete(p)
        \/ \E e \in EventKeys, form \in RunnerForms : CreateStart(p, e, form)
        \/ CreateBegin(p)
        \/ CreateEventPut(p)
        \/ CreateRunnerPut(p)
        \/ CreateCrash(p)
        \/ \E e \in EventKeys, rid \in RunnerKeys, form \in UpdateForms,
              time \in UpdateTimes :
               Update(p, e, rid, form, time)
        \/ \E e \in EventKeys, rid \in RunnerKeys : DeleteRunner(p, e, rid)
        \/ \E e \in EventKeys, form \in FinishForms :
               RecordFinishQuery(p, e, form)
        \/ RecordFinishPut(p)

Spec == Init /\ [][Next]_vars

(***************************************************************************)
(* The duration codec applied on its own: a number of seconds is           *)
(* formatted by _display_seconds and the text is parsed back by            *)
(* _get_seconds_from_time.                                                 *)
(***************************************************************************)
\* Largest number of seconds formatted
MaxSeconds == 3725

InitCodec ==
    /\ events = <<>>
    /\ runners = <<>>
    /\ nextEventId = 1
    /\ nextRunnerId = 1
    /\ procs = [p \in Procs |-> Idle]
    /\ dirty = {}
    /\ last = Ended("none", "none")
    /\ \E s \in 0..MaxSeconds :
           calc = [kind |-> "codec", stage |-> "input", seconds |-> s,
                   text |-> NoneText, back |-> NoneInt]

Format ==
    /\ calc.kind = "codec"
    /\ calc.stage = "input"
    /\ calc' = [calc EXCEPT !.stage = "formatted",
                            !.text = _display_seconds(calc.seconds)]
    /\ UNCHANGED <<store, procs, dirty, last>>

Parse ==
    /\ calc.kind = "codec"
    /\ calc.stage = "formatted"
    /\ calc' = [calc EXCEPT !.stage = "parsed",
                            !.back = _get_seconds_from_time(calc.text)]
    /\ UNCHANGED <<store, procs, dirty, last>>

NextCodec == Format \/ Parse

SpecCodec == InitCodec /\ [][NextCodec]_vars

(***************************************************************************)
(* The age classification applied on its own                               *)
(***************************************************************************)
\* Largest age, and largest negative age, classified
MaxAge == 72

ClassifyYears == {1990, 2016}

ClassifyGenders == {"male", "female", "other", ""}

InitClassify ==
    /\ events = <<>>
    /\ runners = <<>>
    /\ nextEventId = 1
    /\ nextRunnerId = 1
    /\ procs = [p \in Procs |-> Idle]
    /\ dirty = {}
    /\ last = Ended("none", "none")
    /\ \E g \in ClassifyGenders, y \in ClassifyYears :
       \E b \in {NoneInt} \cup ((y - MaxAge)..(y + MaxAge)) :
           calc = [kind |-> "classify", stage |-> "input", gender |-> g,
                   birth_year |-> b, event_year |-> y, result |-> None]

Classify ==
    /\ calc.kind = "classify"
    /\ calc.stage = "input"
    /\ calc' = [calc EXCEPT
                  !.stage = "classified",
                  !.result = _compute_age_class(calc.gender, calc.birth_year,
                                                calc.event_year)]
    /\ UNCHANGED <<store, procs, dirty, last>>

NextClassify == Classify

SpecClassify == InitClassify /\ [][NextClassify]_vars

(***************************************************************************)
(* C9: the label of the band table                                         *)
(***************************************************************************)
YouthBands ==
    {[lo |-> -MaxAge - 1, hi |-> 9, label |-> "S D"],
     [lo |-> 10, hi |-> 11, label |-> "S C"],
     [lo |-> 12, hi |-> 13, label |-> "S B"],
     [lo |-> 14, hi |-> 15, label |-> "S A"],
     [lo |-> 16, hi |-> 17, label |-> "JG B"],
     [lo |-> 18, hi |-> 19, label |-> "JG A"]}

AdultBands ==
    {[lo |-> 20, hi |-> 29, label |-> "20"],
     [lo |-> 30, hi |-> 34, label |-> "30"],
     [lo |-> 35, hi |-> 39, label |-> "35"],
     [lo |-> 40, hi |-> 44, label |-> "40"],
     [lo |-> 45, hi |-> 49, label |-> "45"],
     [lo |-> 50, hi |-> 54, label |-> "50"],
     [lo |-> 55, hi |-> 59, label |-> "55"],
     [lo |-> 60, hi |-> 64, label |-> "60"],
     [lo |-> 65, hi |-> 69, label |-> "65"],
     [lo |-> 70, hi |-> MaxAge + 1, label |-> "70"]}

BandLabel(gender, age) ==
    LET G == IF gender = "male" THEN "M" ELSE "W"
        InBand(b) == b.lo <= age /\ age <= b.hi
    IN  IF age < 20
        THEN G \o (CHOOSE b \in YouthBands : InBand(b)).label
        ELSE ("L" \o G) \o (CHOOSE b \in AdultBands : InBand(b)).label

\* C9: for gender male or female and every age from -MaxAge to MaxAge,
\* classify returns the label of the band table; it returns None when the
\* gender is neither male nor female or the birth year is not set.
C9_ClassifyIsBandTable ==
    (calc.kind = "classify" /\ calc.stage = "classified") =>
        calc.result =
            IF calc.gender \notin {"male", "female"}
               \/ calc.birth_year = NoneInt
            THEN None
            ELSE BandLabel(calc.gender, calc.event_year - calc.birth_year)

\* C9 happens: a woman of 56 is classified LW55, a boy of 6 MS D
C9_Witness ==
    /\ calc.kind = "classify"
    /\ calc.stage = "classified"
    /\ calc.event_year = 2016
    /\ \/ calc.gender = "female" /\ calc.birth_year = 1960
          /\ calc.result = "LW55"
       \/ calc.gender = "male" /\ calc.birth_year = 2010
          /\ calc.result = "MS D"

(***************************************************************************)
(* C10: parse(format(s)) = s                                               *)
(***************************************************************************)
\* C10: for every number of seconds s from 0 to MaxSeconds, parsing the text
\* that formatting s produced gives s again.
C10_RoundTrip ==
    (calc.kind = "codec" /\ calc.stage = "parsed") =>
        calc.back = calc.seconds

(***************************************************************************)
(* Steps of the requests, for the properties of single handlers            *)
(***************************************************************************)
\* The step is one of request p
StepOf(p) == procs'[p] # procs[p]

\* The step ends the request p, which was running
Ends(p) == procs[p].pc # "idle" /\ procs'[p].pc = "idle"

\* The step is one of a running _create_runner of request p that commits
CreateCommits(p) ==
    /\ procs[p].op = "Create"
    /\ Ends(p)
    /\ last' = Ended("Create", "ok")

\* Some runner of event e has start number n
StartNoTaken(rs, e, n) == \E r \in RunnersOf(rs, e) : rs[r].start_no = n

(***************************************************************************)
(* C1                                                                      *)
(***************************************************************************)
\* C1: in every reachable state no two distinct stored runners of one event
\* have the same start_no.
C1_UniqueStartNo ==
    \A r1, r2 \in DOMAIN runners :
        (r1 # r2 /\ runners[r1].event = runners[r2].event)
            => runners[r1].start_no # runners[r2].start_no

(***************************************************************************)
(* C2: two Create requests for one event and one start number, each        *)
(* arrived and about to begin its transaction, and nothing else running    *)
(***************************************************************************)
Racers == {1, 2}

InitRace ==
    /\ \E form \in EventForms :
           /\ EventFormValid(form)
           /\ events = (1 :> form)
    /\ nextEventId = 2
    /\ \E n \in 1..MaxStartNo :
           /\ \/ runners = <<>> /\ nextRunnerId = 1
              \/ \E other \in RunnerForms :
                     /\ RunnerFieldsValid(other)
                     /\ other.start_no # n
                     /\ runners =
                          (1 :> _pre_put_hook(NewRunner(1, other),
                                              events[1].year))
                     /\ nextRunnerId = 2
           /\ \E f \in [Racers -> {g \in RunnerForms :
                                     RunnerFieldsValid(g) /\ g.start_no = n}] :
                  procs = [p \in Procs |->
                             IF p \in Racers
                             THEN [Running("c_begin", "Create", 1, NoKey, f[p])
                                     EXCEPT !.retries = Retries]
                             ELSE Idle]
    /\ dirty = {}
    /\ last = Ended("none", "none")
    /\ calc = NoCalc

NextRace ==
    \E p \in Racers : CreateBegin(p) \/ CreateEventPut(p) \/ CreateRunnerPut(p)

SpecRace == InitRace /\ [][NextRace]_vars

\* C2: two concurrent Creates for the same event and start number end with
\* one success and one duplicate-start-number error, and exactly one runner
\* with that start number is stored, whatever the interleaving.
C2_OneCreateWins ==
    [][\A p \in Racers :
          (Ends(p) /\ \A q \in Racers \ {p} : procs[q].pc = "idle") =>
              /\ {last, last'} = {Ended("Create", "ok"),
                                  Ended("Create", "invalid")}
              /\ Cardinality({r \in RunnersOf(runners', 1) :
                                runners'[r].start_no
                                  = procs[p].form.start_no}) = 1]_vars

\* C2 happens: both Creates have ended, the later one with the duplicate
\* error, and the runner of the other is stored
C2_Witness ==
    /\ \A p \in Racers : procs[p].pc = "idle"
    /\ last = Ended("Create", "invalid")
    /\ \E e \in DOMAIN events :
           StartNoTaken(runners, e, events[e].next_start_no - 1)

(***************************************************************************)
(* C3                                                                      *)
(***************************************************************************)
\* C3: a Create that succeeds with start number n on an event whose
\* next_start_no is k leaves next_start_no at k + 1 when n = k and at k
\* when n # k.
C3_CounterAfterCreate ==
    [][\A p \in Procs :
          CreateCommits(p) =>
              LET e == procs[p].ev
                  n == procs[p].form.start_no
                  k == events[e].next_start_no
              IN  /\ e \in DOMAIN events'
                  /\ events'[e].next_start_no = IF n = k THEN k + 1 ELSE k]_vars

\* C3 happens: Creates have succeeded, one below the event's next_start_no
\* and one at the next_start_no that the event has now
C3_Witness ==
    /\ last = Ended("Create", "ok")
    /\ \E e \in DOMAIN events :
           /\ StartNoTaken(runners, e, events[e].next_start_no - 1)
           /\ StartNoTaken(runners, e, events[e].next_start_no)

(***************************************************************************)
(* C4                                                                      *)
(***************************************************************************)
\* C4: a Create that fails, on the validation of its fields or because a
\* runner of the event has the start number already, stores no runner and
\* leaves the events and the runners as they were; and a Create whose start
\* number is taken does fail.
C4_FailedCreateChangesNothing ==
    [][\A p \in Procs :
          /\ \A e \in EventKeys, form \in RunnerForms :
                 CreateStart(p, e, form) =>
                     /\ UNCHANGED <<events, runners>>
                     /\ (~RunnerFieldsValid(form)
                         \/ StartNoTaken(runners, e, form.start_no))
                            => (last' = Ended("Create", "invalid")
                                /\ procs'[p].pc = "idle")
          /\ (procs[p].op = "Create" /\ StepOf(p) /\ ~CreateCommits(p))
                 => UNCHANGED <<events, runners>>
          /\ (procs[p].pc = "c_begin" /\ StepOf(p)
              /\ StartNoTaken(runners, procs[p].ev, procs[p].form.start_no))
                 => (last' = Ended("Create", "invalid")
                     /\ procs'[p].pc = "idle")]_vars

\* C4 happens: a Create has ended with Invalid for a start number that a
\* runner of the event has
C4_Witness ==
    /\ last = Ended("Create", "invalid")
    /\ \E e \in DOMAIN events : RunnersOf(runners, e) # {}

(***************************************************************************)
(* C5                                                                      *)
(***************************************************************************)
\* The next_start_no of no stored event is lower after the step
CounterNotLowered ==
    \A e \in DOMAIN events \cap DOMAIN events' :
        events'[e].next_start_no >= events[e].next_start_no

\* C5: across every step of every operation on an event, UpdateEvent
\* included, next_start_no after the step is at least its value before.
C5_CounterNeverDecreases == [][CounterNotLowered]_vars

\* C5 as amended: across every step of every operation other than the write
\* of UpdateEvent, next_start_no after the step is at least its value before.
C5_CounterDecreasesOnlyByUpdateEvent ==
    [][(\A p \in Procs : ~UpdateEventPut(p)) => CounterNotLowered]_vars

\* C5 happens: two Creates have each advanced the counter of an event
C5_Witness ==
    \E e \in DOMAIN events :
        /\ StartNoTaken(runners, e, events[e].next_start_no - 1)
        /\ StartNoTaken(runners, e, events[e].next_start_no - 2)

(***************************************************************************)
(* C6                                                                      *)
(***************************************************************************)
\* C6: the increment of next_start_no and the insertion of the runner by a
\* Create are all or nothing: a step of a Create advances the counter only
\* together with storing its runner at the old next_start_no, stores a
\* runner at next_start_no only together with advancing the counter, and a
\* Create that dies after its event write leaves both as they were.
C6_CounterAndRunnerTogether ==
    [][\A p \in Procs :
          (procs[p].op = "Create" /\ StepOf(p)) =>
              LET e == procs[p].ev
                  stored == DOMAIN runners' \ DOMAIN runners
                  advanced == /\ e \in DOMAIN events \cap DOMAIN events'
                              /\ events'[e].next_start_no
                                   = events[e].next_start_no + 1
                  atCounter == \E r \in stored :
                                  /\ e \in DOMAIN events
                                  /\ runners'[r].event = e
                                  /\ runners'[r].start_no
                                       = events[e].next_start_no
              IN  /\ events' # events => advanced
                  /\ advanced <=> atCounter
                  /\ ~CreateCommits(p) => UNCHANGED <<events, runners>>]_vars

\* C6 happens: a Create has put the event with the counter advanced and has
\* not yet put its runner; nothing of it is stored
C6_Witness ==
    \E p \in Procs :
        /\ procs[p].pc = "c_runner"
        /\ procs[p].stEvent
        /\ procs[p].ev \in DOMAIN events
        /\ events[procs[p].ev].next_start_no = procs[p].form.start_no
        /\ ~StartNoTaken(runners, procs[p].ev, procs[p].form.start_no)

(***************************************************************************)
(* C7                                                                      *)
(***************************************************************************)
\* C7: when DeleteEvent completes, no runner of that event is stored.
C7_NoRunnerAfterDeleteEvent ==
    [][\A p \in Procs :
          (procs[p].op = "DeleteEvent" /\ Ends(p)
           /\ last' = Ended("DeleteEvent", "ok"))
              => RunnersOf(runners', procs[p].ev) = {}]_vars

(***************************************************************************)
(* C8                                                                      *)
(***************************************************************************)
\* C8: in every reachable state the age_class of each stored runner is the
\* classification of its gender and birth year in the current year of its
\* event.
C8_AgeClassConsistent ==
    \A r \in DOMAIN runners :
        runners[r].event \in DOMAIN events =>
            runners[r].age_class =
                _compute_age_class(runners[r].gender, runners[r].birth_year,
                                   events[runners[r].event].year)

(***************************************************************************)
(* C20: the shape of the formatted text                                    *)
(***************************************************************************)
\* C20: formatting a number of seconds under one hour gives the two
\* components mm:ss, each padded to two digits, and formatting a number at
\* or above one hour gives hh:mm:ss with the hours not wrapped; absent
\* seconds give an absent text.
C20_FormatShape ==
    (calc.kind = "codec" /\ calc.stage # "input") =>
        LET s == calc.seconds
        IN  calc.text =
                IF s = NoneInt THEN NoneText
                ELSE IF s < 3600
                THEN Pad2(s \div 60) \o <<":">> \o Pad2(s % 60)
                ELSE Pad2(s \div 3600) \o <<":">> \o Pad2((s \div 60) % 60)
                     \o <<":">> \o Pad2(s % 60)

(***************************************************************************)
(* C13 to C16: Update of a runner                                          *)
(***************************************************************************)
\* The Update of the stored runner rid of the event e with a form that
\* RunnerForm accepts
ValidUpdate(e, rid, form) ==
    /\ e \in DOMAIN events
    /\ rid \in DOMAIN runners
    /\ runners[rid].event = e
    /\ ~RunnerFormInvalid(runners, form, e, rid)

\* A step in which an Update ends
UpdateEnds == last' # last /\ last'.op = "Update"

\* C13: an Update of a stored runner with valid fields that changes the
\* birth year or the gender succeeds, and the stored runner then has the
\* posted fields and the age class of the posted gender and birth year in
\* the year of the event.
C13_UpdateReclassifies ==
    [][UpdateEnds =>
       \A p \in Procs, e \in EventKeys, rid \in RunnerKeys,
          form \in UpdateForms, time \in UpdateTimes :
          (/\ Update(p, e, rid, form, time)
           /\ ValidUpdate(e, rid, form)
           /\ \/ form.birth_year # runners[rid].birth_year
              \/ form.gender # runners[rid].gender)
          => /\ last' = Ended("Update", "ok")
             /\ rid \in DOMAIN runners'
             /\ runners'[rid].gender = form.gender
             /\ runners'[rid].birth_year = form.birth_year
             /\ runners'[rid].start_no = form.start_no
             /\ runners'[rid].name = form.name
             /\ runners'[rid].race = form.race
             /\ runners'[rid].age_class =
                    _compute_age_class(form.gender, form.birth_year,
                                       events[e].year)]_vars

\* C14: an Update that keeps the start number of the runner it updates is
\* not rejected as a duplicate, and an Update to a start number that another
\* runner of the event holds is rejected and changes no runner.
C14_UpdateExcludesSelf ==
    [][UpdateEnds =>
       \A p \in Procs, e \in EventKeys, rid \in RunnerKeys,
          form \in UpdateForms, time \in UpdateTimes :
          (/\ Update(p, e, rid, form, time)
           /\ rid \in DOMAIN runners
           /\ runners[rid].event = e
           /\ RunnerFieldsValid(form))
          => /\ form.start_no = runners[rid].start_no
                 => last' # Ended("Update", "invalid")
             /\ (\E q \in RunnersOf(runners, e) \ {rid} :
                     runners[q].start_no = form.start_no)
                 => (last' = Ended("Update", "invalid") /\ runners' = runners)]_vars

\* C15: an Update changes no event, so the counter of the owning event stays
\* as it is whatever start number the form carries, and changes no runner
\* other than the one it updates.
C15_UpdateLeavesCounter ==
    [][UpdateEnds =>
          /\ events' = events
          /\ \E rid \in RunnerKeys :
                 /\ DOMAIN runners' \ {rid} = DOMAIN runners \ {rid}
                 /\ \A r \in DOMAIN runners \ {rid} : runners'[r] = runners[r]]_vars

\* C15 happens: an Update has ended while an event with runners has a counter
\* that an update form carries as start number
C15_Witness ==
    /\ last.op = "Update"
    /\ \E e \in DOMAIN events :
           /\ events[e].next_start_no <= MaxStartNo
           /\ RunnersOf(runners, e) # {}

\* C16: an Update with valid fields whose request carries no time stores the
\* runner with the time absent, and one whose request carries a time that is
\* not empty stores the runner with the time it had.
C16_UpdateClearsTime ==
    [][UpdateEnds =>
       \A p \in Procs, e \in EventKeys, rid \in RunnerKeys,
          form \in UpdateForms, time \in UpdateTimes :
          (Update(p, e, rid, form, time) /\ ValidUpdate(e, rid, form))
          => /\ last' = Ended("Update", "ok")
             /\ rid \in DOMAIN runners'
             /\ runners'[rid].time =
                    IF time = NoneText \/ time = <<>> THEN NoneText
                    ELSE runners[rid].time]_vars

(***************************************************************************)
(* C17 to C19: RecordFinish                                                *)
(***************************************************************************)
\* C17: a RecordFinish that succeeds for a runner that is stored changes the
\* time of that runner and nothing else: its age class and its other fields,
\* every other runner and every event stay as they are, also when the year
\* of the event was edited after the runner was written.
C17_FinishChangesOnlyTime ==
    [][\A p \in Procs :
          (/\ RecordFinishPut(p)
           /\ last' = Ended("RecordFinish", "ok")
           /\ procs[p].rid \in DOMAIN runners)
          => /\ events' = events
             /\ DOMAIN runners' = DOMAIN runners
             /\ \A r \in DOMAIN runners :
                    runners'[r] =
                        IF r = procs[p].rid
                        THEN [runners[r] EXCEPT !.time = runners'[r].time]
                        ELSE runners[r]]_vars

\* A step in which a finish request is refused or its runner is read: the
\* steps RecordFinishQuery can take
FinishAsked ==
    \/ last'.op = "RecordFinish" /\ procs' = procs
    \/ \E p \in Procs : procs[p].pc = "idle" /\ procs'[p].pc = "rf_put"

\* C18: a RecordFinish whose time text is empty or absent ends with an error
\* before it looks for the runner, and a RecordFinish for a start number that
\* no runner of the event has ends with an error; neither changes a stored
\* runner or event.
C18_FinishRefusals ==
    [][FinishAsked =>
       \A p \in Procs, e \in EventKeys, form \in FinishForms :
          RecordFinishQuery(p, e, form)
          => /\ form.time \in {<<>>, NoneText}
                 => /\ last' \in {Ended("RecordFinish", "notime"),
                                  Ended("RecordFinish", "invalid")}
                    /\ procs' = procs
                    /\ UNCHANGED <<events, runners>>
             /\ RunnerByStartNo(runners, e, form.start_no) = NoKey
                 => /\ last' \in {Ended("RecordFinish", "notfound"),
                                  Ended("RecordFinish", "notime"),
                                  Ended("RecordFinish", "invalid")}
                    /\ procs' = procs
                    /\ UNCHANGED <<events, runners>>]_vars

\* C18 happens: a RecordFinish without a time was refused while the event has
\* a runner to finish
C18_Witness ==
    /\ last = Ended("RecordFinish", "notime")
    /\ \E e \in DOMAIN events : RunnersOf(runners, e) # {}

(***************************************************************************)
(* EventReportHandler: the finished list                                   *)
(***************************************************************************)
\* The order of two characters of a time text: digits before the colon
UpperCase ==
    <<"A", "B", "C", "D", "E", "F", "G", "H", "I", "J", "K", "L", "M", "N",
      "O", "P", "Q", "R", "S", "T", "U", "V", "W", "X", "Y", "Z">>

LowerCase ==
    <<"a", "b", "c", "d", "e", "f", "g", "h", "i", "j", "k", "l", "m", "n",
      "o", "p", "q", "r", "s", "t", "u", "v", "w", "x", "y", "z">>

CharCode(c) ==
    IF c = ":" THEN 58
    ELSE IF IsDigit(c) THEN 48 + DigitValue(c)
    ELSE IF \E i \in 1..26 : UpperCase[i] = c
    THEN 64 + (CHOOSE i \in 1..26 : UpperCase[i] = c)
    ELSE 96 + (CHOOSE i \in 1..26 : LowerCase[i] = c)

\* The characters of the names that the forms carry
Chars(name) ==
    IF name = "Anna" THEN <<"A", "n", "n", "a">>
    ELSE IF name = "Bernd" THEN <<"B", "e", "r", "n", "d">>
    ELSE IF name = "Clara" THEN <<"C", "l", "a", "r", "a">>
    ELSE <<>>

\* a < b for two strings, as the datastore orders an indexed string property
RECURSIVE TextLess(_, _)
TextLess(a, b) ==
    IF b = <<>> THEN FALSE
    ELSE IF a = <<>> THEN TRUE
    ELSE IF Head(a) # Head(b) THEN CharCode(Head(a)) < CharCode(Head(b))
    ELSE TextLess(Tail(a), Tail(b))

\* The index order of Runner.time: None before every string
TimeLess(a, b) ==
    IF a = NoneText THEN b # NoneText
    ELSE IF b = NoneText THEN FALSE
    ELSE TextLess(a, b)

\* Runner.event == event_key, Runner.time != None, Runner.race == race
FilterNode(prop, value) == [prop |-> prop, value |-> value]

\* a and b of Python for two filter nodes: a node is an object that defines
\* no truth value, so it is true and the expression is its right operand
PyAnd(a, b) == b

\* The filter that _get_finished_list hands to Runner.query
FinishedFilter(event_key, race) ==
    IF race # ""
    THEN PyAnd(PyAnd(FilterNode("event", event_key), FilterNode("time", NoneText)),
               FilterNode("race", race))
    ELSE PyAnd(FilterNode("event", event_key), FilterNode("time", NoneText))

\* The runner passes the filter node
Passes(runner, node) ==
    IF node.prop = "race" THEN runner.race = node.value
    ELSE IF node.prop = "time" THEN runner.time # node.value
    ELSE runner.event = node.value

\* The keys ks in the order of qry.order(Runner.time): by time, then by key
RECURSIVE OrderByTime(_, _)
OrderByTime(rs, ks) ==
    IF ks = {} THEN <<>>
    ELSE LET first == CHOOSE r \in ks : \A q \in ks \ {r} :
                          \/ TimeLess(rs[r].time, rs[q].time)
                          \/ rs[r].time = rs[q].time /\ r < q
         IN  <<first>> \o OrderByTime(rs, ks \ {first})

\* Runner.query(filter, ancestor=event_key).order(Runner.time)
FinishedQuery(rs, event_key, race) ==
    OrderByTime(rs, {r \in RunnersOf(rs, event_key) :
                        Passes(rs[r], FinishedFilter(event_key, race))})

\* The groupings the request can ask for in its by parameter
ReportBys == SUBSET {"gender", "age_class"}

\* The leaf of the report a runner is appended to
LeafOf(runner, bys) ==
    IF "gender" \in bys /\ "age_class" \in bys
    THEN <<runner.race, runner.gender, runner.age_class>>
    ELSE IF "gender" \in bys THEN <<runner.race, runner.gender>>
    ELSE <<runner.race>>

\* for runner in qry: runners.setdefault(...)...append(runner)
RECURSIVE Factorize(_, _, _, _)
Factorize(rs, qry, bys, acc) ==
    IF qry = <<>> THEN acc
    ELSE LET r == Head(qry)
             leaf == LeafOf(rs[r], bys)
         IN  Factorize(rs, Tail(qry), bys,
                       IF leaf \in DOMAIN acc
                       THEN [acc EXCEPT ![leaf] = Append(@, r)]
                       ELSE (leaf :> <<r>>) @@ acc)

\* _get_finished_list: the runners of the report, by leaf
_get_finished_list(rs, event_key, race, bys) ==
    Factorize(rs, FinishedQuery(rs, event_key, race), bys, <<>>)

(***************************************************************************)
(* The results of an event: runners are registered, finish requests set    *)
(* their times, and the lists and the export are asked for                 *)
(***************************************************************************)
ResultPersons ==
    UpdatePersons \cup {[name |-> "Clara", team |-> "", gender |-> "female",
                         birth_year |-> 2004, race |-> "6km"]}

\* The times entered: mm:ss, hh:mm:ss, and minutes that make 99 h 59 min and
\* 100 h
ResultTimeTexts ==
    {<<"2", "5", ":", "0", "7">>,
     <<"0", "1", ":", "0", "2", ":", "0", "3">>,
     <<"5", "9", "9", "9", ":", "0", "0">>,
     <<"6", "0", "0", "0", ":", "0", "0">>}

ResultForms == [start_no : 1..MaxStartNo, time : ResultTimeTexts]

ReportRaces == {"", "6km", "12km"}

\* The one request that records finishes here
Finisher == 1

\* Event 1 with a runner for each start number, and event 2 with one runner
InitResults ==
    /\ events = (1 :> [title |-> "Lauf", year |-> 2016,
                       next_start_no |-> MaxStartNo + 1])
                @@ (2 :> [title |-> "Lauf", year |-> 2020,
                          next_start_no |-> 2])
    /\ \E who \in [1..MaxStartNo -> ResultPersons] :
           runners = [k \in 1..MaxStartNo |->
                        _pre_put_hook(NewRunner(1, WithStartNo(who[k], k)),
                                      2016)]
                     @@ (MaxStartNo + 1 :>
                           _pre_put_hook(
                               NewRunner(2, WithStartNo(
                                   CHOOSE q \in Persons : TRUE, 1)),
                               2020))
    /\ nextEventId = 3
    /\ nextRunnerId = MaxStartNo + 2
    /\ procs = [p \in Procs |-> Idle]
    /\ dirty = {}
    /\ last = Ended("none", "none")
    /\ calc = NoCalc

\* EventReportHandler.get with report_type finished
Report(e, race, bys) ==
    /\ calc = NoCalc
    /\ \A p \in Procs : procs[p].pc = "idle"
    /\ e \in DOMAIN events
    /\ calc' = [kind |-> "report", event |-> e, race |-> race, bys |-> bys,
                qry |-> FinishedQuery(runners, e, race),
                result |-> _get_finished_list(runners, e, race, bys)]
    /\ UNCHANGED <<store, procs, dirty, last>>

(***************************************************************************)
(* EventReportHandler: the starter list                                    *)
(***************************************************************************)
\* The filter that _get_starter_list hands to Runner.query
StarterFilter(event_key, race) ==
    IF race # ""
    THEN PyAnd(FilterNode("event", event_key), FilterNode("race", race))
    ELSE FilterNode("event", event_key)

\* What the request carries as order: nothing, name, or another word
StarterOrders == {"", "name", "start_no", "time"}

\* StarterBefore that orders by start number whatever the request asks
StarterBeforeByStartNo(rs, r, q, order) ==
    \/ rs[r].start_no < rs[q].start_no
    \/ rs[r].start_no = rs[q].start_no /\ r < q

\* The runner r comes before q: qry.order(Runner.name) when the order is
\* name, qry.order(Runner.start_no) otherwise, and the key orders equals
StarterBefore(rs, r, q, order) ==
    IF order = "name"
    THEN \/ TextLess(Chars(rs[r].name), Chars(rs[q].name))
         \/ rs[r].name = rs[q].name /\ r < q
    ELSE \/ rs[r].start_no < rs[q].start_no
         \/ rs[r].start_no = rs[q].start_no /\ r < q

RECURSIVE OrderStarters(_, _, _)
OrderStarters(rs, ks, order) ==
    IF ks = {} THEN <<>>
    ELSE LET first == CHOOSE r \in ks :
                          \A q \in ks \ {r} : StarterBefore(rs, r, q, order)
         IN  <<first>> \o OrderStarters(rs, ks \ {first}, order)

\* _get_starter_list: the runners the list is rendered from
_get_starter_list(rs, event_key, race, order) ==
    OrderStarters(rs, {r \in RunnersOf(rs, event_key) :
                          Passes(rs[r], StarterFilter(event_key, race))},
                  order)

\* EventReportHandler.get with report_type starter_list
StarterList(e, race, order) ==
    /\ calc = NoCalc
    /\ \A p \in Procs : procs[p].pc = "idle"
    /\ e \in DOMAIN events
    /\ calc' = [kind |-> "starters", event |-> e, race |-> race,
                order |-> order,
                result |-> _get_starter_list(runners, e, race, order)]
    /\ UNCHANGED <<store, procs, dirty, last>>

(***************************************************************************)
(* EventExportHandler._export_tsv and EventImportHandler: the text is the   *)
(* sequence of its lines, a line the sequence of its tab-separated fields.  *)
(* Numbers and times are written and read as characters; str() of a title,  *)
(* a name, a team, a gender or a race is the string itself.                 *)
(***************************************************************************)
TagTitle == <<"#", "t", "i", "t", "l", "e", ":">>
TagYear == <<"#", "y", "e", "a", "r", ":">>
TagNextStartNo ==
    <<"#", "n", "e", "x", "t", "_", "s", "t", "a", "r", "t", "_", "n", "o", ":">>
TagStartNo == <<"#", "s", "t", "a", "r", "t", "_", "n", "o">>

\* Event.all_runners: the runners of the event by start number
all_runners(rs, event_key) ==
    OrderStarters(rs, RunnersOf(rs, event_key), "start_no")

\* Runner.to_tsv: None is written as the empty string
to_tsv(runner) ==
    <<DecStr(runner.start_no), runner.name, runner.team,
      DecStr(runner.birth_year), runner.gender,
      IF runner.age_class = None THEN "" ELSE runner.age_class,
      runner.race,
      IF runner.time = NoneText THEN <<>> ELSE runner.time>>

\* The lines that _export_tsv writes for the event
_export_tsv(evs, rs, event_key) ==
    LET all == all_runners(rs, event_key)
    IN  <<<<TagTitle, evs[event_key].title>>,
          <<TagYear, DecStr(evs[event_key].year)>>,
          <<TagNextStartNo, DecStr(evs[event_key].next_start_no)>>,
          <<TagStartNo, "name", "team", "birth_year", "gender", "age_class",
            "race", "time">>>>
        \o [i \in 1..Len(all) |-> to_tsv(rs[all[i]])]

\* runner.time = row[7] passes DurationProperty._validate, and
\* _to_base_type can convert it when the runner is put
ImportableTime(time_str) ==
    RegexTimeMatches(time_str) /\ TimeStorable(time_str)

\* _import_row: the runner that is put, classified in the year of the event
\* that this transaction has put
_import_row(event_key, event, row) ==
    [_pre_put_hook([event |-> event_key, start_no |-> IntOf(row[1]),
                    name |-> row[2], team |-> row[3],
                    gender |-> row[5], birth_year |-> IntOf(row[4]),
                    age_class |-> None, race |-> row[7], time |-> NoneText],
                   event.year)
       EXCEPT !.time = _to_base_type(row[8])]

\* The loop of _import_from_tsv over the lines; acc holds the event read so
\* far, whether it was put, the runners put, and whether an exception ended
\* the import
RECURSIVE ImportRows(_, _, _, _)
ImportRows(rows, event_key, runner_key, acc) ==
    IF rows = <<>> \/ acc.failed THEN acc
    ELSE LET row == Head(rows)
             next ==
                 IF row[1] = TagTitle
                 THEN [acc EXCEPT !.event.title = row[2]]
                 ELSE IF row[1] = TagYear
                 THEN [acc EXCEPT !.event.year = IntOf(row[2])]
                 ELSE IF row[1] = TagNextStartNo
                 THEN [acc EXCEPT !.event.next_start_no = IntOf(row[2])]
                 ELSE IF row[1] = TagStartNo
                 THEN [acc EXCEPT !.put = TRUE]
                 ELSE IF ~acc.put \/ ~ImportableTime(row[8])
                 THEN [acc EXCEPT !.failed = TRUE]
                 ELSE [acc EXCEPT !.runners =
                          (runner_key + Cardinality(DOMAIN acc.runners)
                             :> _import_row(event_key, acc.event, row)) @@ @]
         IN  ImportRows(Tail(rows), event_key, runner_key, next)

\* _import_from_tsv: what the transaction has put when it ends; an import
\* that never put the event has no event key to return
_import_from_tsv(rows, event_key, runner_key) ==
    LET acc == ImportRows(rows, event_key, runner_key,
                          [event |-> [title |-> None, year |-> NoneInt,
                                      next_start_no |-> NoneInt],
                           put |-> FALSE, runners |-> <<>>, failed |-> FALSE])
    IN  [acc EXCEPT !.failed = acc.failed \/ ~acc.put]

\* EventExportHandler.get with file_type tsv
Export(e) ==
    /\ calc = NoCalc
    /\ \A p \in Procs : procs[p].pc = "idle"
    /\ e \in DOMAIN events
    /\ calc' = [kind |-> "export", event |-> e,
                text |-> _export_tsv(events, runners, e)]
    /\ UNCHANGED <<store, procs, dirty, last>>

\* EventImportHandler.post with the text that was exported: the transaction
\* commits the event and the runners, or an exception rolls it back
Import ==
    /\ calc.kind = "export"
    /\ LET done == _import_from_tsv(calc.text, nextEventId, nextRunnerId)
       IN  IF done.failed
           THEN /\ last' = Ended("Import", "error")
                /\ calc' = [kind |-> "import", source |-> calc.event,
                            target |-> NoKey]
                /\ UNCHANGED store
           ELSE /\ events' = (nextEventId :> done.event) @@ events
                /\ runners' = done.runners @@ runners
                /\ nextEventId' = nextEventId + 1
                /\ nextRunnerId' =
                       nextRunnerId + Cardinality(DOMAIN done.runners)
                /\ last' = Ended("Import", "ok")
                /\ calc' = [kind |-> "import", source |-> calc.event,
                            target |-> nextEventId]
    /\ UNCHANGED <<procs, dirty>>

NextResults ==
    \/ \E form \in ResultForms :
           calc = NoCalc /\ RecordFinishQuery(Finisher, 1, form)
    \/ calc = NoCalc /\ RecordFinishPut(Finisher)
    \/ \E e \in DOMAIN events, race \in ReportRaces, bys \in ReportBys :
           Report(e, race, bys)
    \/ \E e \in DOMAIN events, race \in ReportRaces, order \in StarterOrders :
           StarterList(e, race, order)
    \/ \E e \in DOMAIN events : Export(e)
    \/ Import

SpecResults == InitResults /\ [][NextResults]_vars

(***************************************************************************)
(* C11, C12: the finished report; C19: the time a finish request stores    *)
(***************************************************************************)
\* The whole seconds that the text [hh:]mm:ss denotes
SecondsDenoted(text) ==
    LET parts == Split(text, 3)
    IN  IF Len(parts) = 3
        THEN IntOf(parts[1]) * 3600 + IntOf(parts[2]) * 60 + IntOf(parts[3])
        ELSE IntOf(parts[1]) * 60 + IntOf(parts[2])

\* C11: the finished report, for every race filter and every grouping, holds
\* only runners of the event that have a time and, when a race is asked for,
\* only runners of that race.
C11_ReportOnlyFinished ==
    calc.kind = "report" =>
        \A leaf \in DOMAIN calc.result :
            \A i \in 1..Len(calc.result[leaf]) :
                LET runner == runners[calc.result[leaf][i]]
                IN  /\ runner.event = calc.event
                    /\ runner.time # NoneText
                    /\ calc.race # "" => runner.race = calc.race

\* C12: in every leaf of the finished report the runners that have a time
\* are in ascending order of the seconds of their times, and two runners of
\* a leaf are in the order they have in the query that the report groups.
C12_ReportOrdered ==
    calc.kind = "report" =>
        \A leaf \in DOMAIN calc.result :
            LET seq == calc.result[leaf]
            IN  \A i \in 1..Len(seq), j \in 1..Len(seq) :
                    i < j =>
                        /\ (runners[seq[i]].time # NoneText
                            /\ runners[seq[j]].time # NoneText)
                               => SecondsDenoted(runners[seq[i]].time)
                                      <= SecondsDenoted(runners[seq[j]].time)
                        /\ \E a \in 1..Len(calc.qry), b \in 1..Len(calc.qry) :
                               /\ a < b
                               /\ calc.qry[a] = seq[i]
                               /\ calc.qry[b] = seq[j]

\* The text is mm:ss or hh:mm:ss with minutes and seconds under 60
WellFormedTime(text) ==
    LET parts == Split(text, 3)
    IN  /\ Len(parts) \in {2, 3}
        /\ \A i \in 1..Len(parts) : IsNumber(parts[i])
        /\ IntOf(parts[Len(parts)]) < 60
        /\ IntOf(parts[Len(parts) - 1]) < 60

\* C19: after a RecordFinish that succeeds with a time text mm:ss or hh:mm:ss,
\* the time of the stored runner denotes the seconds of the text entered.
C19_StoredTimeIsEntered ==
    [][\A p \in Procs :
          (/\ RecordFinishPut(p)
           /\ last' = Ended("RecordFinish", "ok")
           /\ WellFormedTime(procs[p].form.time))
          => SecondsDenoted(runners'[procs[p].rid].time)
                 = SecondsDenoted(procs[p].form.time)]_vars

(***************************************************************************)
(* C25: a deleted runner stays deleted                                     *)
(***************************************************************************)
\* C25: a runner that DeleteRunner has removed is never stored again: no
\* step, and so no RecordFinish that read the runner before the delete,
\* stores a runner under a key that was allocated and is no longer stored.
C25_DeletedStaysDeleted ==
    [][\A r \in RunnerKeys : r \notin DOMAIN runners => r \notin DOMAIN runners']_vars

(***************************************************************************)
(* Runners are registered for two events: only RunnerCreateHandler.post    *)
(* runs, and no event is edited                                            *)
(***************************************************************************)
InitCreates ==
    /\ \E a, b \in {form \in EventForms : EventFormValid(form)} :
           events = (1 :> a) @@ (2 :> b)
    /\ runners = <<>>
    /\ nextEventId = 3
    /\ nextRunnerId = 1
    /\ procs = [p \in Procs |-> Idle]
    /\ dirty = {}
    /\ last = Ended("none", "none")
    /\ calc = NoCalc

NextCreates ==
    \E p \in Procs :
        \/ \E e \in EventKeys, form \in RunnerForms : CreateStart(p, e, form)
        \/ CreateBegin(p)
        \/ CreateEventPut(p)
        \/ CreateRunnerPut(p)
        \/ CreateCrash(p)

SpecCreates == InitCreates /\ [][NextCreates]_vars

(***************************************************************************)
(* C22, C24                                                                *)
(***************************************************************************)
\* C22: the commit of a Create on one event makes the open transaction of a
\* Create fail, and so run again or abort, only when both are on the same
\* event: a transaction on event A is never in conflict with a commit on a
\* different event B.
C22_ConflictsPerEvent ==
    [][\A p \in Procs, q \in Procs :
          (/\ p # q
           /\ CreateCommits(p)
           /\ InTxn(q)
           /\ q \notin dirty
           /\ q \in dirty')
          => procs[p].ev = procs[q].ev]_vars

\* C24: when only Creates have run on an event, no stored runner of the
\* event has the event's next_start_no as start number.
C24_NextStartNoFree ==
    \A e \in DOMAIN events :
        ~StartNoTaken(runners, e, events[e].next_start_no)

(***************************************************************************)
(* C21: the starter list                                                   *)
(***************************************************************************)
\* C21: the starter list holds each runner of the event once, with or
\* without a time, only those of the race when a race is asked for, and no
\* runner of another event; it is ordered by name when the order asked for is
\* name and by start number for every other value and for none.
C21_StarterList ==
    calc.kind = "starters" =>
        LET seq == calc.result
            expected == {r \in DOMAIN runners :
                            /\ runners[r].event = calc.event
                            /\ calc.race # "" => runners[r].race = calc.race}
        IN  /\ {seq[i] : i \in 1..Len(seq)} = expected
            /\ Len(seq) = Cardinality(expected)
            /\ \A i \in 1..Len(seq), j \in 1..Len(seq) :
                   i < j =>
                       IF calc.order = "name"
                       THEN ~TextLess(Chars(runners[seq[j]].name),
                                      Chars(runners[seq[i]].name))
                       ELSE runners[seq[i]].start_no <= runners[seq[j]].start_no

\* C21 happens: a starter list by name lists a runner with a time and a
\* runner without one, the higher start number first
C21_Witness ==
    /\ calc.kind = "starters"
    /\ calc.order = "name"
    /\ Len(calc.result) = 2
    /\ runners[calc.result[1]].start_no > runners[calc.result[2]].start_no
    /\ runners[calc.result[1]].name # runners[calc.result[2]].name
    /\ runners[calc.result[1]].time = NoneText
    /\ runners[calc.result[2]].time # NoneText

(***************************************************************************)
(* C23: import of an exported event                                        *)
(***************************************************************************)
\* What the claim compares of the runners of an event
RunnerFields(rs, e) ==
    {<<rs[r].start_no, rs[r].name, rs[r].team, rs[r].birth_year,
       rs[r].gender, rs[r].race, rs[r].time>> : r \in RunnersOf(rs, e)}

\* C23: importing the text exported from an event stores a new event with
\* the title, year and next_start_no of the original and runners equal to
\* the original's in start_no, name, team, birth_year, gender, race and
\* time, also when runners of the event have no time.
C23_ImportRebuildsExport ==
    calc.kind = "import" =>
        /\ last = Ended("Import", "ok")
        /\ calc.target \in DOMAIN events
        /\ calc.target # calc.source
        /\ events[calc.target] = events[calc.source]
        /\ RunnerFields(runners, calc.target)
               = RunnerFields(runners, calc.source)

====
